---- MODULE Spec2Model ----
(***************************************************************************)
(* Model of supervisor/validate.py: the named validators and the           *)
(* configuration schemas, each a voluptuous declaration.  A validator is   *)
(* an operator from a Python value to a result; a call of a validator or   *)
(* of a schema is one action.                                              *)
(*                                                                         *)
(* Python values are records [t, v]: t is the type tag, v the payload.     *)
(* A str is the sequence of its characters, a list the sequence of its     *)
(* elements, a dict the sequence of its <<key, value>> pairs in insertion  *)
(* order.                                                                  *)
(***************************************************************************)
EXTENDS Integers, Sequences, FiniteSets, TLC

VARIABLES
    pc,         \* the caller: "ready" to call, or "done" with a result in hand
    op,         \* the validator or schema that was called
    input,      \* the value it was called with
    result,     \* what the call returned or raised
    generated   \* every value uuid4 has drawn, in order

vars == <<pc, op, input, result, generated>>

(***************************************************************************)
(* Python values                                                           *)
(***************************************************************************)
PyNone == [t |-> "none", v |-> <<>>]
PyInt(n) == [t |-> "int", v |-> n]
PyFloat(n) == [t |-> "float", v |-> n]
PyBool(b) == [t |-> "bool", v |-> b]
PyStr(s) == [t |-> "str", v |-> s]
PyList(l) == [t |-> "list", v |-> l]
PyDict(d) == [t |-> "dict", v |-> d]
PyEnum(s) == [t |-> "enum", v |-> s]

EmptyDict == PyDict(<<>>)

DictKeys(d) == {d.v[i][1] : i \in 1..Len(d.v)}
DictHas(d, k) == \E i \in 1..Len(d.v) : d.v[i][1] = k
DictGet(d, k) == d.v[CHOOSE i \in 1..Len(d.v) : d.v[i][1] = k][2]

(***************************************************************************)
(* Characters and strings                                                  *)
(***************************************************************************)
DigitSeq == <<"0", "1", "2", "3", "4", "5", "6", "7", "8", "9">>
UpperSeq == <<"A", "B", "C", "D", "E", "F", "G", "H", "I", "J", "K", "L", "M",
              "N", "O", "P", "Q", "R", "S", "T", "U", "V", "W", "X", "Y", "Z">>
LowerSeq == <<"a", "b", "c", "d", "e", "f", "g", "h", "i", "j", "k", "l", "m",
              "n", "o", "p", "q", "r", "s", "t", "u", "v", "w", "x", "y", "z">>
Range(f) == {f[i] : i \in DOMAIN f}
Digits == Range(DigitSeq)
Letters == Range(UpperSeq) \cup Range(LowerSeq)
HexLower == Digits \cup {"a", "b", "c", "d", "e", "f"}
HexAny == HexLower \cup {"A", "B", "C", "D", "E", "F"}
\* \w of a str pattern, on the ASCII characters
WordChars == Letters \cup Digits \cup {"_"}
Whitespace == {" ", "\n", "\t", "\r"}

DigitVal(c) == (CHOOSE i \in 1..10 : DigitSeq[i] = c) - 1
LowerChar(c) ==
    IF \E i \in 1..26 : UpperSeq[i] = c
    THEN LowerSeq[CHOOSE i \in 1..26 : UpperSeq[i] = c]
    ELSE c
\* str.lower()
StrLower(s) == [i \in 1..Len(s) |-> LowerChar(s[i])]
StartsWith(s, p) == Len(s) >= Len(p) /\ SubSeq(s, 1, Len(p)) = p
AllIn(s, chars) == \A i \in 1..Len(s) : s[i] \in chars
\* s[n:]
Drop(s, n) == SubSeq(s, n + 1, Len(s))
\* s.find(c), 1-based; 0 when absent
Find(s, c) ==
    IF \E i \in 1..Len(s) : s[i] = c
    THEN CHOOSE i \in 1..Len(s) : s[i] = c /\ \A j \in 1..(i - 1) : s[j] # c
    ELSE 0
\* first position of a character of chars, or Len(s) + 1
FindAny(s, chars) ==
    IF \E i \in 1..Len(s) : s[i] \in chars
    THEN CHOOSE i \in 1..Len(s) : s[i] \in chars /\ \A j \in 1..(i - 1) : s[j] \notin chars
    ELSE Len(s) + 1

RECURSIVE Split(_, _)
\* s.split(c)
Split(s, c) ==
    LET i == Find(s, c)
    IN IF i = 0 THEN <<s>> ELSE <<SubSeq(s, 1, i - 1)>> \o Split(Drop(s, i), c)

RECURSIVE Filter(_, _)
Filter(s, drop) ==
    IF s = <<>> THEN <<>>
    ELSE IF s[1] \in drop THEN Filter(Tail(s), drop)
    ELSE <<s[1]>> \o Filter(Tail(s), drop)

RECURSIVE LStrip(_)
LStrip(s) == IF s # <<>> /\ s[1] \in Whitespace THEN LStrip(Tail(s)) ELSE s
RECURSIVE RStrip(_)
RStrip(s) ==
    IF s # <<>> /\ s[Len(s)] \in Whitespace THEN RStrip(SubSeq(s, 1, Len(s) - 1)) ELSE s
\* s.strip()
Strip(s) == LStrip(RStrip(s))

RECURSIVE DigitsToNat(_)
DigitsToNat(s) ==
    IF s = <<>> THEN 0
    ELSE 10 * DigitsToNat(SubSeq(s, 1, Len(s) - 1)) + DigitVal(s[Len(s)])

RECURSIVE NatToDigits(_)
NatToDigits(n) ==
    IF n < 10 THEN <<DigitSeq[n + 1]>>
    ELSE NatToDigits(n \div 10) \o <<DigitSeq[(n % 10) + 1]>>

\* str(n) of an int
IntToStr(n) == IF n < 0 THEN <<"-">> \o NatToDigits(-n) ELSE NatToDigits(n)

\* "$" in a pattern: the end of the string, or just before a newline that
\* is the string's last character; rest is what is left of the string
AtDollar(rest) == rest = <<>> \/ rest = <<"\n">>

(***************************************************************************)
(* Results.  A validator returns its output, or raises vol.Invalid (one    *)
(* error, or the several of a MultipleInvalid, each with the class that    *)
(* was raised and the path it carries), or lets another exception through  *)
(* (crash).                                                                *)
(***************************************************************************)
Ok(x) == [ok |-> TRUE, out |-> x, errors |-> <<>>, crash |-> FALSE]
Invalid(kind) ==
    [ok |-> FALSE, out |-> PyNone, errors |-> <<[kind |-> kind, path |-> <<>>]>>,
     crash |-> FALSE]
MultipleInvalid(errs) == [ok |-> FALSE, out |-> PyNone, errors |-> errs, crash |-> FALSE]
Uncaught(kind) ==
    [ok |-> FALSE, out |-> PyNone, errors |-> <<[kind |-> kind, path |-> <<>>]>>,
     crash |-> TRUE]
\* Invalid.prepend(path), on every error of the result
Prepend(r, seg) ==
    [r EXCEPT !.errors = [i \in 1..Len(r.errors) |->
        [r.errors[i] EXCEPT !.path = <<seg>> \o r.errors[i].path]]]

(***************************************************************************)
(* The voluptuous validators the module is written with                    *)
(***************************************************************************)
\* the text of an int literal, as int(str) reads it: the digits, with
\* single underscores allowed between them
IsIntLiteral(s) ==
    /\ s # <<>>
    /\ AllIn(s, Digits \cup {"_"})
    /\ s[1] # "_" /\ s[Len(s)] # "_"
    /\ \A i \in 1..(Len(s) - 1) : ~(s[i] = "_" /\ s[i + 1] = "_")
\* int(s) of a str: [ok, n]
ParseInt(s) ==
    LET b == Strip(s)
        signed == b # <<>> /\ b[1] \in {"+", "-"}
        body == IF signed THEN Tail(b) ELSE b
        n == DigitsToNat(Filter(body, {"_"}))
    IN IF IsIntLiteral(body)
       THEN [ok |-> TRUE, n |-> IF signed /\ b[1] = "-" THEN -n ELSE n]
       ELSE [ok |-> FALSE, n |-> 0]

\* vol.Coerce(int)
CoerceInt(x) ==
    CASE x.t = "int" -> Ok(x)
      [] x.t = "bool" -> Ok(PyInt(IF x.v THEN 1 ELSE 0))
      [] x.t = "float" -> Ok(PyInt(x.v))
      [] x.t = "str" -> IF ParseInt(x.v).ok THEN Ok(PyInt(ParseInt(x.v).n))
                        ELSE Invalid("CoerceInvalid")
      [] OTHER -> Invalid("CoerceInvalid")

\* vol.Coerce(float), on the values whose float is a whole number
CoerceFloat(x) ==
    CASE x.t = "float" -> Ok(x)
      [] x.t = "int" -> Ok(PyFloat(x.v))
      [] x.t = "bool" -> Ok(PyFloat(IF x.v THEN 1 ELSE 0))
      [] x.t = "str" -> IF ParseInt(x.v).ok
                        THEN Ok(PyFloat(ParseInt(x.v).n))
                        ELSE Invalid("CoerceInvalid")
      [] OTHER -> Invalid("CoerceInvalid")

\* str(x) of a scalar
ToStr(x) ==
    CASE x.t = "str" -> x.v
      [] x.t = "int" -> IntToStr(x.v)
      [] x.t = "bool" -> IF x.v THEN <<"T", "r", "u", "e">> ELSE <<"F", "a", "l", "s", "e">>
      [] x.t = "none" -> <<"N", "o", "n", "e">>
      [] x.t = "enum" -> x.v
      [] x.t = "float" -> IntToStr(x.v) \o <<".", "0">>
\* vol.Coerce(str)
CoerceStr(x) == Ok(PyStr(ToStr(x)))

\* vol.Range(min=lo, max=hi) of an int; a bound of NoBound is not given
NoBound == PyNone
VolRange(lo, hi, x) ==
    IF lo.t # "none" /\ ~(x.v >= lo.v) THEN Invalid("RangeInvalid")
    ELSE IF hi.t # "none" /\ ~(x.v <= hi.v) THEN Invalid("RangeInvalid")
    ELSE Ok(x)

\* vol.Length(max=hi): len() of a list or a str
VolLengthMax(hi, x) == IF Len(x.v) > hi THEN Invalid("LengthInvalid") ELSE Ok(x)

\* the strings a pattern ending in "$" is matched against in full
DollarCores(s) ==
    {s} \cup (IF s # <<>> /\ s[Len(s)] = "\n" THEN {SubSeq(s, 1, Len(s) - 1)} ELSE {})

\* vol.Match(r"^[0-9a-f]{lo,hi}$")
MatchHex(lo, hi, x) ==
    IF x.t = "str" /\ \E c \in DollarCores(x.v) :
                         Len(c) >= lo /\ Len(c) <= hi /\ AllIn(c, HexLower)
    THEN Ok(x) ELSE Invalid("MatchInvalid")

\* vol.Boolean()
TrueWords == {<<"1">>, <<"t", "r", "u", "e">>, <<"y", "e", "s">>, <<"o", "n">>,
              <<"e", "n", "a", "b", "l", "e">>}
FalseWords == {<<"0">>, <<"f", "a", "l", "s", "e">>, <<"n", "o">>, <<"o", "f", "f">>,
               <<"d", "i", "s", "a", "b", "l", "e">>}
VolBoolean(x) ==
    CASE x.t = "str" ->
            IF StrLower(x.v) \in TrueWords THEN Ok(PyBool(TRUE))
            ELSE IF StrLower(x.v) \in FalseWords THEN Ok(PyBool(FALSE))
            ELSE Invalid("BooleanInvalid")
      [] x.t = "bool" -> Ok(x)
      [] x.t \in {"int", "float"} -> Ok(PyBool(x.v # 0))
      [] x.t = "none" -> Ok(PyBool(FALSE))
      [] OTHER -> Ok(PyBool(Len(x.v) > 0))

\* urlparse(url): the scheme and the netloc, each empty when absent
UrlScheme(u) ==
    LET i == Find(u, ":")
    IN IF i > 1 /\ u[1] \in Letters
          /\ AllIn(SubSeq(u, 1, i - 1), Letters \cup Digits \cup {"+", "-", "."})
       THEN SubSeq(u, 1, i - 1) ELSE <<>>
UrlNetloc(u) ==
    LET rest == IF UrlScheme(u) = <<>> THEN u ELSE Drop(u, Len(UrlScheme(u)) + 1)
        after == Drop(rest, 2)
    IN IF StartsWith(rest, <<"/", "/">>)
       THEN SubSeq(after, 1, FindAny(after, {"/", "?", "#"}) - 1)
       ELSE <<>>
\* vol.Url(): urlparse drops tabs and newlines, and the blanks around the url
VolUrl(x) ==
    LET u == Filter(Strip(x.v), {"\t", "\r", "\n"})
    IN IF UrlScheme(u) # <<>> /\ UrlNetloc(u) # <<>> THEN Ok(x) ELSE Invalid("UrlInvalid")

\* vol.Unique() of a list
VolUnique(x) ==
    IF \E i, j \in 1..Len(x.v) : i < j /\ x.v[i] = x.v[j] THEN Invalid("Invalid") ELSE Ok(x)


(***************************************************************************)
(* validate.py: the named validators                                       *)
(***************************************************************************)
\* RE_REPOSITORY.match(s): [ok, url].  [^#]+ takes everything up to the
\* first "#"; the branch is the run of [\w\-] after it.
RE_REPOSITORY(s) ==
    LET i == Find(s, "#")
        after == Drop(s, i)
        branchEnd == FindAny(after, (Range(after) \ WordChars) \ {"-"})
    IN IF i = 0 THEN [ok |-> s # <<>>, url |-> s]
       ELSE [ok |-> i > 1 /\ branchEnd > 1 /\ AtDollar(Drop(after, branchEnd - 1)),
             url |-> SubSeq(s, 1, i - 1)]

network_port_RangeFrom0(x) ==
    LET c == CoerceInt(x)
    IN IF c.ok THEN VolRange(PyInt(0), PyInt(65535), c.out) ELSE c

network_port(x) ==
    LET c == CoerceInt(x)
    IN IF c.ok THEN VolRange(PyInt(1), PyInt(65535), c.out) ELSE c

wait_boot_Min60(x) ==
    LET c == CoerceInt(x)
    IN IF c.ok THEN VolRange(PyInt(60), NoBound, c.out) ELSE c

wait_boot(x) ==
    LET c == CoerceInt(x)
    IN IF c.ok THEN VolRange(PyInt(1), PyInt(60), c.out) ELSE c

\* the validator of ATTR_WAIT_BOOT in SCHEMA_HASS_CONFIG
hass_wait_boot(x) ==
    LET c == CoerceInt(x)
    IN IF c.ok THEN VolRange(PyInt(60), NoBound, c.out) ELSE c

\* vol.Match(r"^[\w{}]+/[\-\w{}]+$")
docker_image(x) ==
    LET seg == WordChars \cup {"{", "}"}
    IN IF x.t = "str" /\ \E c \in DollarCores(x.v) :
              LET i == Find(c, "/")
              IN /\ i > 1 /\ i < Len(c)
                 /\ AllIn(SubSeq(c, 1, i - 1), seg)
                 /\ AllIn(Drop(c, i), seg \cup {"-"})
       THEN Ok(x) ELSE Invalid("MatchInvalid")

uuid_match(x) == MatchHex(32, 32, x)
sha256(x) == MatchHex(64, 64, x)
token(x) == MatchHex(32, 256, x)

LogLevels == {<<"d", "e", "b", "u", "g">>, <<"i", "n", "f", "o">>,
              <<"w", "a", "r", "n", "i", "n", "g">>, <<"e", "r", "r", "o", "r">>,
              <<"c", "r", "i", "t", "i", "c", "a", "l">>}
log_level(x) == IF x.t = "str" /\ x.v \in LogLevels THEN Ok(x) ELSE Invalid("InInvalid")

\* IPv4Address._parse_octet
IsOctet(o) ==
    /\ o # <<>> /\ AllIn(o, Digits) /\ Len(o) <= 3
    /\ (o = <<"0">> \/ o[1] # "0")
    /\ DigitsToNat(o) <= 255
\* IPv4Address(a) does not raise
IsIPv4(a) ==
    LET octets == Split(a, ".")
    IN a # <<>> /\ "/" \notin Range(a) /\ Len(octets) = 4
       /\ \A i \in 1..4 : IsOctet(octets[i])
\* IPv6Address._parse_hextet
IsHextet(h) == h # <<>> /\ Len(h) <= 4 /\ AllIn(h, HexAny)
\* IPv6Address(a) does not raise: the scope id is split off, an IPv4 tail
\* counts for two hextets, and one "::" may stand for the hextets left out
IsIPv6(a) ==
    LET pct == Find(a, "%")
        addr == IF pct = 0 THEN a ELSE SubSeq(a, 1, pct - 1)
        scope == IF pct = 0 THEN <<>> ELSE Drop(a, pct)
        scopeOk == pct = 0 \/ (scope # <<>> /\ "%" \notin Range(scope))
        raw == Split(addr, ":")
        v4tail == "." \in Range(raw[Len(raw)])
        \* the IPv4 tail is replaced by the two hextets it stands for
        parts == IF v4tail
                 THEN SubSeq(raw, 1, Len(raw) - 1) \o <<<<"0">>, <<"0">>>>
                 ELSE raw
        n == Len(parts)
        inner == {i \in 2..(n - 1) : parts[i] = <<>>}
        skip == CHOOSE i \in inner : TRUE
        hi == IF parts[1] = <<>> THEN skip - 2 ELSE skip - 1
        lo == IF parts[n] = <<>> THEN n - skip - 1 ELSE n - skip
    IN /\ scopeOk
       /\ addr # <<>> /\ "/" \notin Range(addr)
       /\ Len(raw) >= 3
       /\ v4tail => IsIPv4(raw[Len(raw)])
       /\ n <= 9
       /\ Cardinality(inner) <= 1
       /\ IF inner = {}
          THEN n = 8 /\ \A i \in 1..n : IsHextet(parts[i])
          ELSE /\ parts[1] = <<>> => skip = 2
               /\ parts[n] = <<>> => skip = n - 1
               /\ 8 - (hi + lo) >= 1
               /\ \A i \in 1..n :
                    (i < skip /\ ~(i = 1 /\ parts[1] = <<>>)) => IsHextet(parts[i])
               /\ \A i \in 1..n :
                    (i > skip /\ ~(i = n /\ parts[n] = <<>>)) => IsHextet(parts[i])
\* ipaddress.ip_address(a) does not raise ValueError
IsIpAddress(a) == IsIPv4(a) \/ IsIPv6(a)

dns_url(x) ==
    IF x.t # "str" THEN Uncaught("AttributeError")
    ELSE IF ~StartsWith(StrLower(x.v), <<"d", "n", "s", ":", "/", "/">>)
    THEN Invalid("Invalid")
    ELSE IF ~IsIpAddress(Drop(x.v, 6)) THEN Invalid("Invalid")
    ELSE Ok(x)

validate_repository(x) ==
    IF x.t # "str" THEN Uncaught("TypeError")
    ELSE IF ~RE_REPOSITORY(x.v).ok THEN Invalid("Invalid")
    ELSE IF ~VolUrl(PyStr(RE_REPOSITORY(x.v).url)).ok THEN Invalid("UrlInvalid")
    ELSE Ok(x)


(***************************************************************************)
(* The keys of the schemas (the names validate.py imports from const)      *)
(***************************************************************************)
ATTR_ACCESS_TOKEN == PyStr(<<"a", "c", "c", "e", "s", "s", "_", "t", "o", "k", "e", "n">>)
ATTR_ADDONS_CUSTOM_LIST == PyStr(<<"a", "d", "d", "o", "n", "s", "_", "c", "u", "s", "t", "o", "m", "_", "l", "i", "s", "t">>)
ATTR_AUDIO == PyStr(<<"a", "u", "d", "i", "o">>)
ATTR_AUDIO_INPUT == PyStr(<<"a", "u", "d", "i", "o", "_", "i", "n", "p", "u", "t">>)
ATTR_AUDIO_OUTPUT == PyStr(<<"a", "u", "d", "i", "o", "_", "o", "u", "t", "p", "u", "t">>)
ATTR_BOOT == PyStr(<<"b", "o", "o", "t">>)
ATTR_CHANNEL == PyStr(<<"c", "h", "a", "n", "n", "e", "l">>)
ATTR_CLI == PyStr(<<"c", "l", "i">>)
ATTR_DEBUG == PyStr(<<"d", "e", "b", "u", "g">>)
ATTR_DEBUG_BLOCK == PyStr(<<"d", "e", "b", "u", "g", "_", "b", "l", "o", "c", "k">>)
ATTR_DNS == PyStr(<<"d", "n", "s">>)
ATTR_HASSOS == PyStr(<<"h", "a", "s", "s", "o", "s">>)
ATTR_HOMEASSISTANT == PyStr(<<"h", "o", "m", "e", "a", "s", "s", "i", "s", "t", "a", "n", "t">>)
ATTR_IMAGE == PyStr(<<"i", "m", "a", "g", "e">>)
ATTR_LAST_BOOT == PyStr(<<"l", "a", "s", "t", "_", "b", "o", "o", "t">>)
ATTR_LOGGING == PyStr(<<"l", "o", "g", "g", "i", "n", "g">>)
ATTR_MULTICAST == PyStr(<<"m", "u", "l", "t", "i", "c", "a", "s", "t">>)
ATTR_PORT == PyStr(<<"p", "o", "r", "t">>)
ATTR_PORTS == PyStr(<<"p", "o", "r", "t", "s">>)
ATTR_REFRESH_TOKEN == PyStr(<<"r", "e", "f", "r", "e", "s", "h", "_", "t", "o", "k", "e", "n">>)
ATTR_SESSION == PyStr(<<"s", "e", "s", "s", "i", "o", "n">>)
ATTR_SSL == PyStr(<<"s", "s", "l">>)
ATTR_SUPERVISOR == PyStr(<<"s", "u", "p", "e", "r", "v", "i", "s", "o", "r">>)
ATTR_TIMEZONE == PyStr(<<"t", "i", "m", "e", "z", "o", "n", "e">>)
ATTR_UUID == PyStr(<<"u", "u", "i", "d">>)
ATTR_VERSION == PyStr(<<"v", "e", "r", "s", "i", "o", "n">>)
ATTR_WAIT_BOOT == PyStr(<<"w", "a", "i", "t", "_", "b", "o", "o", "t">>)
ATTR_WATCHDOG == PyStr(<<"w", "a", "t", "c", "h", "d", "o", "g">>)

\* UpdateChannels, the enumeration of const, by its values
UpdateChannels == {<<"s", "t", "a", "b", "l", "e">>, <<"b", "e", "t", "a">>, <<"d", "e", "v">>}
UpdateChannels_STABLE == PyEnum(<<"s", "t", "a", "b", "l", "e">>)
\* vol.Coerce(UpdateChannels): the member, or the member with that value
CoerceUpdateChannels(x) ==
    IF x.t = "enum" /\ x.v \in UpdateChannels THEN Ok(x)
    ELSE IF x.t = "str" /\ x.v \in UpdateChannels THEN Ok(PyEnum(x.v))
    ELSE Invalid("CoerceInvalid")

\* utils.validate.validate_timezone: a known zone name is returned as it is
KnownTimezones == {<<"U", "T", "C">>, <<"E", "u", "r", "o", "p", "e", "/", "B", "e", "r", "l", "i", "n">>}
validate_timezone(x) ==
    IF x.t = "str" /\ x.v \in KnownTimezones THEN Ok(x) ELSE Invalid("Invalid")

\* uuid.uuid4().hex of the n-th draw: 32 lowercase hex digits, no two draws
\* alike
HexDigitSeq == DigitSeq \o <<"a", "b", "c", "d", "e", "f">>
Uuid4Hex(n) ==
    PyStr([i \in 1..30 |-> "0"]
          \o <<HexDigitSeq[((n \div 16) % 16) + 1], HexDigitSeq[(n % 16) + 1]>>)

(***************************************************************************)
(* Schemas as data: a mapping with fixed keys is its fields in declaration *)
(* order and its extra-key policy; a field names its validator.            *)
(***************************************************************************)
Undefined == [kind |-> "undefined", value |-> PyNone]
\* default=<value>
DefaultValue(x) == [kind |-> "value", value |-> x]
\* default=dict: called for each validation that lacks the key
DefaultDict == [kind |-> "dict", value |-> PyNone]
\* default=lambda: uuid.uuid4().hex: called for each validation that lacks
\* the key
DefaultUuid4 == [kind |-> "uuid4", value |-> PyNone]

Optional(key, default, validator) ==
    [key |-> key, required |-> FALSE, default |-> default, validator |-> validator]
Required(key, default, validator) ==
    [key |-> key, required |-> TRUE, default |-> default, validator |-> validator]
Schema(fields, extra) == [fields |-> fields, extra |-> extra]

\* key.default() for a key the input lacks; fresh is what uuid4 draws
DefaultOf(d, fresh) ==
    CASE d.kind = "value" -> d.value
      [] d.kind = "dict" -> EmptyDict
      [] d.kind = "uuid4" -> fresh

\* validate_mapping: the default of every key with a default that the
\* input lacks is put after the input's pairs
DefaultPairs(fields, data, fresh) ==
    LET lacking == SelectSeq(fields,
                       LAMBDA f : f.default.kind # "undefined" /\ ~DictHas(data, f.key))
    IN [i \in 1..Len(lacking) |-> <<lacking[i].key, DefaultOf(lacking[i].default, fresh)>>]

\* the values the uuid4 default draws in one validation
Draws(schema, data, fresh) ==
    IF data.t # "dict" THEN <<>>
    ELSE IF \E i \in 1..Len(schema.fields) :
               schema.fields[i].default.kind = "uuid4" /\ ~DictHas(data, schema.fields[i].key)
    THEN <<fresh>> ELSE <<>>

RECURSIVE Apply(_, _)

\* What validating one pair of a mapping or one element of a sequence gave:
\* r is the result, its errors with their full paths; key is the key the
\* output gets; keep is false for a pair that is left out of the output.
Item(key, r, keep) == [key |-> key, r |-> r, keep |-> keep]

\* Body(value), with value computed once
Bind(value, Body(_)) == CHOOSE y \in {Body(x) : x \in {value}} : TRUE
\* the function seq as an evaluated sequence
Evaluated(seq) == <<>> \o seq

RECURSIVE ErrorsFrom(_, _)
\* the errors of the items from the i-th on, in order
ErrorsFrom(items, i) ==
    IF i > Len(items) THEN <<>> ELSE items[i].r.errors \o ErrorsFrom(items, i + 1)

\* out[key] = value for every kept item in order: a key keeps its first
\* place and has its last value
OutPairs(items) ==
    LET n == Len(items)
        first == SelectSeq([i \in 1..n |-> i], LAMBDA i :
                    /\ items[i].keep
                    /\ \A j \in 1..(i - 1) : items[j].keep => items[j].key # items[i].key)
        last(i) == CHOOSE j \in i..n :
                    /\ items[j].keep /\ items[j].key = items[i].key
                    /\ \A m \in (j + 1)..n : items[m].keep => items[m].key # items[i].key
    IN Bind(first, LAMBDA f :
            [m \in 1..Len(f) |-> <<items[f[m]].key, items[last(f[m])].r.out>>])

\* An exception that is no vol.Invalid ends the walk where it is raised;
\* otherwise the errors of all items, then `more`, are raised together.
\* Without errors the walk returns its output.
GatherItems(items, more) ==
    LET crashed == {i \in 1..Len(items) : items[i].r.crash}
    IN IF crashed # {} THEN items[CHOOSE i \in crashed : \A j \in crashed : i <= j].r
       ELSE Bind(ErrorsFrom(items, 1) \o more, LAMBDA errs :
                IF errs # <<>> THEN MultipleInvalid(errs)
                ELSE Ok(PyDict(Evaluated(OutPairs(items)))))
Gather(items, more) == Bind(Evaluated(items), LAMBDA its : GatherItems(its, more))

\* the required keys that were not provided, in declaration order
MissingRequired(fields, keys) ==
    LET missing == SelectSeq(fields, LAMBDA f : f.required /\ f.key \notin keys)
    IN [i \in 1..Len(missing) |-> [kind |-> "RequiredFieldInvalid", path |-> <<missing[i].key>>]]

\* validate_mapping, one pair: a key the schema declares has its value
\* validated, the key put before the paths of the errors; another key is
\* dropped (REMOVE_EXTRA) or is an error
FieldItem(schema, pair) ==
    LET k == pair[1]
        declared == {i \in 1..Len(schema.fields) : schema.fields[i].key = k}
        f == schema.fields[CHOOSE i \in declared : TRUE]
    IN IF declared # {}
       THEN Bind(Apply(f.validator, pair[2]), LAMBDA r : Item(k, Prepend(r, k), r.ok))
       ELSE IF schema.extra = "REMOVE_EXTRA" THEN Item(k, Ok(PyNone), FALSE)
       ELSE Item(k, Prepend(Invalid("Invalid"), k), FALSE)

\* vol.Schema({<key>: <validator>, ...}, extra=...)(data): the pairs of the
\* input in the input's order, then the defaults
ValidateMapping(schema, data, fresh) ==
    IF data.t # "dict" THEN Invalid("DictInvalid")
    ELSE Bind(data.v \o DefaultPairs(schema.fields, data, fresh), LAMBDA pairs :
            Gather([i \in 1..Len(pairs) |-> FieldItem(schema, pairs[i])],
                   MissingRequired(schema.fields, {pairs[i][1] : i \in 1..Len(pairs)})))

\* validate_mapping with one validated key: a key that fails the key
\* validator matches nothing and is an extra key, which is not allowed
DynamicItem(keyValidator, valueValidator, pair) ==
    Bind(Apply(keyValidator, pair[1]), LAMBDA rk :
        IF rk.crash THEN Item(pair[1], rk, FALSE)
        ELSE IF ~rk.ok THEN Item(pair[1], Prepend(Invalid("Invalid"), pair[1]), FALSE)
        ELSE Bind(Apply(valueValidator, pair[2]), LAMBDA rv :
                Item(rk.out, Prepend(rv, pair[1]), rv.ok)))

\* vol.Schema({<key validator>: <value validator>})(data)
ValidateDynamic(keyValidator, valueValidator, data) ==
    IF data.t # "dict" THEN Invalid("DictInvalid")
    ELSE Gather([i \in 1..Len(data.v) |->
                    DynamicItem(keyValidator, valueValidator, data.v[i])], <<>>)

\* the result of a walk of a sequence: the output is the list of the
\* elements' outputs
AsList(g) == IF g.ok THEN Ok(PyList([i \in 1..Len(g.out.v) |-> g.out.v[i][2]])) ELSE g

\* vol.Schema([<validator>])(data): every element in order, its index put
\* before the paths of its errors
ValidateSequence(validator, data) ==
    IF data.t # "list" THEN Invalid("SequenceTypeInvalid")
    ELSE Bind(Gather([i \in 1..Len(data.v) |->
                        Bind(Apply(validator, data.v[i]), LAMBDA r :
                            Item(PyInt(i - 1), Prepend(r, PyInt(i - 1)), r.ok))], <<>>),
              LAMBDA g : AsList(g))

\* vol.Maybe(v) = vol.Any(None, v): the error of a failure is the first
\* one, that of the comparison with None
Maybe(validator, x) ==
    IF x.t = "none" THEN Ok(x)
    ELSE Bind(Apply(validator, x), LAMBDA r :
            IF r.ok \/ r.crash THEN r ELSE Invalid("ScalarInvalid"))

dns_server_list_Max9(x) ==
    LET l == VolLengthMax(9, x)
    IN IF l.ok THEN ValidateSequence("dns_url", l.out) ELSE l

dns_server_list(x) ==
    LET l == VolLengthMax(8, x)
    IN IF l.ok THEN ValidateSequence("dns_url", l.out) ELSE l

repositories(x) ==
    LET r == ValidateSequence("validate_repository", x)
    IN IF r.ok THEN VolUnique(r.out) ELSE r

\* vol.All(vol.Coerce(str), vol.Match(r"^\d+(?:/tcp|/udp)?$"))
docker_port_key(x) ==
    LET s == ToStr(x)
    IN IF \E c \in DollarCores(s) :
            LET n == FindAny(c, Range(c) \ Digits) - 1
            IN n >= 1 /\ Drop(c, n) \in {<<>>, <<"/", "t", "c", "p">>, <<"/", "u", "d", "p">>}
       THEN Ok(PyStr(s)) ELSE Invalid("MatchInvalid")

DOCKER_PORTS(x) == ValidateDynamic("docker_port_key", "maybe_network_port", x)

(***************************************************************************)
(* validate.py: the configuration schemas                                  *)
(***************************************************************************)
DefaultUuid_AtDefinition == DefaultValue(Uuid4Hex(0))

\* the default of ATTR_UUID
DefaultUuid == DefaultUuid4

HassWaitBootDefault_30 == PyInt(30)

HassWaitBootDefault == PyInt(600)

HassFields ==
    << Optional(ATTR_UUID, DefaultUuid, "uuid_match"),
       Optional(ATTR_VERSION, Undefined, "maybe_coerce_str"),
       Optional(ATTR_IMAGE, Undefined, "docker_image"),
       Optional(ATTR_ACCESS_TOKEN, Undefined, "token"),
       Optional(ATTR_BOOT, DefaultValue(PyBool(TRUE)), "boolean"),
       Optional(ATTR_PORT, DefaultValue(PyInt(8123)), "network_port"),
       Optional(ATTR_REFRESH_TOKEN, Undefined, "maybe_coerce_str"),
       Optional(ATTR_SSL, DefaultValue(PyBool(FALSE)), "boolean"),
       Optional(ATTR_WATCHDOG, DefaultValue(PyBool(TRUE)), "boolean"),
       Optional(ATTR_WAIT_BOOT, DefaultValue(HassWaitBootDefault), "hass_wait_boot"),
       Optional(ATTR_AUDIO_OUTPUT, DefaultValue(PyNone), "maybe_coerce_str"),
       Optional(ATTR_AUDIO_INPUT, DefaultValue(PyNone), "maybe_coerce_str") >>

SCHEMA_HASS_CONFIG_PreventExtra == Schema(HassFields, "PREVENT_EXTRA")

SCHEMA_HASS_CONFIG == Schema(HassFields, "REMOVE_EXTRA")

UpdaterImageFields ==
    << Optional(ATTR_HOMEASSISTANT, Undefined, "docker_image"),
       Optional(ATTR_SUPERVISOR, Undefined, "docker_image"),
       Optional(ATTR_CLI, Undefined, "docker_image"),
       Optional(ATTR_DNS, Undefined, "docker_image"),
       Optional(ATTR_AUDIO, Undefined, "docker_image"),
       Optional(ATTR_MULTICAST, Undefined, "docker_image") >>

SCHEMA_UPDATER_IMAGE == Schema(UpdaterImageFields, "REMOVE_EXTRA")

UpdaterFields ==
    << Optional(ATTR_CHANNEL, DefaultValue(UpdateChannels_STABLE), "coerce_channel"),
       Optional(ATTR_HOMEASSISTANT, Undefined, "coerce_str"),
       Optional(ATTR_SUPERVISOR, Undefined, "coerce_str"),
       Optional(ATTR_HASSOS, Undefined, "coerce_str"),
       Optional(ATTR_CLI, Undefined, "coerce_str"),
       Optional(ATTR_DNS, Undefined, "coerce_str"),
       Optional(ATTR_AUDIO, Undefined, "coerce_str"),
       Optional(ATTR_MULTICAST, Undefined, "coerce_str"),
       Optional(ATTR_IMAGE, DefaultDict, "updater_image") >>

SCHEMA_UPDATER_CONFIG == Schema(UpdaterFields, "REMOVE_EXTRA")

DefaultRepository ==
    PyStr(<<"h", "t", "t", "p", "s", ":", "/", "/", "g", "i", "t", "h", "u", "b", ".", "c", "o", "m", "/",
            "h", "a", "s", "s", "i", "o", "-", "a", "d", "d", "o", "n", "s", "/",
            "r", "e", "p", "o", "s", "i", "t", "o", "r", "y">>)

SupervisorFields ==
    << Optional(ATTR_TIMEZONE, DefaultValue(PyStr(<<"U", "T", "C">>)), "validate_timezone"),
       Optional(ATTR_LAST_BOOT, Undefined, "coerce_str"),
       Optional(ATTR_ADDONS_CUSTOM_LIST, DefaultValue(PyList(<<DefaultRepository>>)), "repositories"),
       Optional(ATTR_WAIT_BOOT, DefaultValue(PyInt(5)), "wait_boot"),
       Optional(ATTR_LOGGING, DefaultValue(PyStr(<<"i", "n", "f", "o">>)), "log_level"),
       Optional(ATTR_DEBUG, DefaultValue(PyBool(FALSE)), "boolean"),
       Optional(ATTR_DEBUG_BLOCK, DefaultValue(PyBool(FALSE)), "boolean") >>

SCHEMA_SUPERVISOR_CONFIG == Schema(SupervisorFields, "REMOVE_EXTRA")

IngressFields_NoDefault ==
    << Required(ATTR_SESSION, Undefined, "ingress_session"),
       Required(ATTR_PORTS, Undefined, "ingress_ports") >>

IngressFields ==
    << Required(ATTR_SESSION, DefaultDict, "ingress_session"),
       Required(ATTR_PORTS, DefaultDict, "ingress_ports") >>

SCHEMA_INGRESS_CONFIG == Schema(IngressFields, "REMOVE_EXTRA")

(***************************************************************************)
(* The validator a schema names, applied to a value                        *)
(***************************************************************************)
Apply(name, x) ==
    CASE name = "uuid_match" -> uuid_match(x)
      [] name = "token" -> token(x)
      [] name = "docker_image" -> docker_image(x)
      [] name = "boolean" -> VolBoolean(x)
      [] name = "network_port" -> network_port(x)
      [] name = "maybe_network_port" -> Maybe("network_port", x)
      [] name = "wait_boot" -> wait_boot(x)
      [] name = "hass_wait_boot" -> hass_wait_boot(x)
      [] name = "coerce_str" -> CoerceStr(x)
      [] name = "coerce_float" -> CoerceFloat(x)
      [] name = "maybe_coerce_str" -> Maybe("coerce_str", x)
      [] name = "coerce_channel" -> CoerceUpdateChannels(x)
      [] name = "log_level" -> log_level(x)
      [] name = "validate_timezone" -> validate_timezone(x)
      [] name = "dns_url" -> dns_url(x)
      [] name = "validate_repository" -> validate_repository(x)
      [] name = "repositories" -> repositories(x)
      [] name = "docker_port_key" -> docker_port_key(x)
      [] name = "updater_image" -> ValidateMapping(SCHEMA_UPDATER_IMAGE, x, PyNone)
      [] name = "ingress_session" -> ValidateDynamic("token", "coerce_float", x)
      [] name = "ingress_ports" -> ValidateDynamic("coerce_str", "network_port", x)

(***************************************************************************)
(* The inputs of the calls                                                 *)
(***************************************************************************)
\* how far around a limit of a range the integers are probed
ProbeWidth == 2
\* the longest list given to a list validator
MaxListLen == 9
\* up to this length a list is any sequence of the sample elements
MaxAnyListLen == 2
\* the most keys of an input mapping
MaxKeys == 2
\* the most draws of uuid4 in a run
MaxDraws == 2

Around(n) == (n - ProbeWidth)..(n + ProbeWidth)
IntProbe == Around(0) \cup Around(60) \cup Around(65535) \cup {5, 600, 8123}
\* an integer, as an int and as its decimal string
IntForms(n) == {PyInt(n), PyStr(IntToStr(n))}
NotInts == {PyStr(<<"a", "b", "c">>), PyStr(<<>>), PyStr(<<"8", "0", "/", "t", "c", "p">>),
            PyStr(<<"-">>), PyNone}
IntInputs == UNION {IntForms(n) : n \in IntProbe} \cup NotInts

\* the sequences of length n over the set S
SeqsOf(S, n) == [1..n -> S]
\* the lists of a list validator: every short list of the elements of C,
\* and the lists of g repeated with the first or the last element replaced
\* by an element of S
ListsOf(S, C, g) ==
    {PyList(l) : l \in UNION {SeqsOf(C, n) : n \in 0..MaxAnyListLen}}
    \cup {PyList([i \in 1..n |-> IF i = (IF last THEN n ELSE 1) THEN e ELSE g]) :
            n \in 1..MaxListLen, last \in BOOLEAN, e \in S \cup {g}}

Dns(a) == PyStr(<<"d", "n", "s", ":", "/", "/">> \o a)
GoodDns ==
    {Dns(<<"1", "9", "2", ".", "1", "6", "8", ".", "1", ".", "1">>),
     Dns(<<"8", ".", "8", ".", "8", ".", "8">>),
     PyStr(<<"D", "n", "S", ":", "/", "/", "1", ".", "1", ".", "1", ".", "1">>),
     Dns(<<":", ":", "1">>),
     Dns(<<"f", "e", "8", "0", ":", ":", "1", ":", "A", "b">>),
     Dns(<<"1", ":", "2", ":", "3", ":", "4", ":", "5", ":", "6", ":", "7", ":", "8">>),
     Dns(<<":", ":", "f", "f", "f", "f", ":", "1", ".", "2", ".", "3", ".", "4">>)}
BadDns ==
    {PyStr(<<"h", "t", "t", "p", ":", "/", "/", "1", ".", "1", ".", "1", ".", "1">>),
     Dns(<<"n", "o", "t", "-", "a", "n", "-", "i", "p">>),
     Dns(<<"2", "5", "6", ".", "1", ".", "1", ".", "1">>),
     Dns(<<"1", ".", "1", ".", "1">>),
     Dns(<<"1", ".", "1", ".", "1", ".", "1", "\n">>),
     Dns(<<"1", ":", ":", "2", ":", ":", "3">>),
     Dns(<<"1", ":", "2", ":", "3", ":", "4", ":", "5", ":", "6", ":", "7">>),
     Dns(<<":", ":", "1", "2", "3", "4", "5">>),
     Dns(<<>>),
     PyStr(<<"1", ".", "1", ".", "1", ".", "1">>)}
DnsLists ==
    ListsOf(GoodDns \cup BadDns \cup {PyInt(53)},
            {Dns(<<"8", ".", "8", ".", "8", ".", "8">>), Dns(<<":", ":", "1">>),
             Dns(<<"1", ".", "1", ".", "1">>)},
            Dns(<<"8", ".", "8", ".", "8", ".", "8">>))

RepoUrl == <<"h", "t", "t", "p", "s", ":", "/", "/", "g", "i", "t", "h", "u", "b", ".", "c", "o", "m", "/", "o", "r", "g", "/", "r", "e", "p", "o">>
Repo(suffix) == PyStr(RepoUrl \o suffix)
\* <url> and <url>#<branch>
GoodRepos ==
    {Repo(<<>>), Repo(<<"#", "d", "e", "v">>), Repo(<<"#", "m", "y", "-", "b", "r", "a", "n", "c", "h", "_", "1">>), PyStr(<<"h", "t", "t", "p", ":", "/", "/", "h">>)}
\* neither form
BadRepos ==
    {PyStr(<<"n", "o", "t", " ", "a", " ", "u", "r", "l", "#", "d", "e", "v">>), Repo(<<"#">>), Repo(<<"#", "a", "#", "b">>), Repo(<<"#", "d", "e", " ", "v">>), PyStr(<<"#", "d", "e", "v">>), PyStr(<<"g", "i", "t", "h", "u", "b", ".", "c", "o", "m", "/", "o", "r", "g", "/", "r", "e", "p", "o">>), PyStr(<<"h", "t", "t", "p", "s", ":", "/", "/", "/", "o", "r", "g">>)}
\* <url>#<branch> followed by a newline, which is neither form
NewlineRepos == {Repo(<<"#", "d", "e", "v", "\n">>)}
RepoLists ==
    ListsOf(GoodRepos \cup BadRepos \cup NewlineRepos \cup {PyInt(7)},
            {Repo(<<>>), Repo(<<"#", "d", "e", "v">>), Repo(<<"#">>)} \cup NewlineRepos,
            Repo(<<>>))

\* the mappings of at most n of the pairs of pool, in every order
RECURSIVE DictsOver(_, _)
DictsOver(pool, n) ==
    IF n = 0 THEN {EmptyDict}
    ELSE LET shorter == DictsOver(pool, n - 1)
         IN shorter \cup {PyDict(Append(d.v, e)) :
                            d \in shorter, e \in {q \in pool : TRUE}}
\* the input mappings of a schema: the mappings of one pair of pool, and
\* the mappings of at most MaxKeys of the pairs of pool that are in core,
\* no key twice, in every order
MappingsOf(pool, core) ==
    {PyDict(<<e>>) : e \in pool}
    \cup {d \in DictsOver(pool \cap core, MaxKeys) :
            \A i, j \in 1..Len(d.v) : i < j => d.v[i][1] # d.v[j][1]}

\* keys and values of a port mapping; the keys of NewlineKeys are digits
\* and a protocol followed by a newline
GoodPortKeys == {PyInt(80), PyStr(<<"8", "0">>), PyStr(<<"4", "4", "3", "/", "t", "c", "p">>), PyStr(<<"5", "3", "/", "u", "d", "p">>)}
BadPortKeys == {PyStr(<<"8", "0", "/", "s", "c", "t", "p">>), PyStr(<<"a", "b", "c">>), PyStr(<<>>), PyStr(<<"/", "t", "c", "p">>), PyNone, PyInt(-1)}
NewlineKeys == {PyStr(<<"8", "0", "\n">>), PyStr(<<"4", "4", "3", "/", "t", "c", "p", "\n">>)}
GoodPortValues == {PyNone, PyInt(8080), PyStr(<<"9", "0", "9", "0">>), PyInt(1), PyInt(65535)}
BadPortValues == {PyInt(0), PyInt(65536), PyStr(<<"a", "b", "c">>), PyStr(<<"-", "1">>)}
PortPairs ==
    {<<PyInt(80), PyInt(8080)>>,
     <<PyInt(80), PyNone>>,
     <<PyStr(<<"8", "0">>), PyStr(<<"9", "0", "9", "0">>)>>,
     <<PyStr(<<"8", "0">>), PyInt(0)>>,
     <<PyStr(<<"4", "4", "3", "/", "t", "c", "p">>), PyInt(1)>>,
     <<PyStr(<<"4", "4", "3", "/", "t", "c", "p">>), PyStr(<<"a", "b", "c">>)>>,
     <<PyStr(<<"5", "3", "/", "u", "d", "p">>), PyInt(65535)>>,
     <<PyStr(<<"5", "3", "/", "u", "d", "p">>), PyInt(65536)>>,
     <<PyStr(<<"8", "0", "/", "s", "c", "t", "p">>), PyInt(8080)>>,
     <<PyStr(<<"a", "b", "c">>), PyNone>>,
     <<PyStr(<<>>), PyInt(1)>>,
     <<PyStr(<<"/", "t", "c", "p">>), PyStr(<<"-", "1">>)>>,
     <<PyStr(<<"8", "0", "\n">>), PyInt(8080)>>,
     <<PyStr(<<"4", "4", "3", "/", "t", "c", "p", "\n">>), PyNone>>,
     <<PyNone, PyInt(1)>>,
     <<PyInt(-1), PyInt(8080)>>}
\* the pairs of the mappings of several keys; 80 and "80" are one key of
\* the output
PortCore ==
    {e \in PortPairs :
        e \in {<<PyInt(80), PyInt(8080)>>,
               <<PyStr(<<"8", "0">>), PyStr(<<"9", "0", "9", "0">>)>>,
               <<PyStr(<<"5", "3", "/", "u", "d", "p">>), PyInt(65536)>>,
               <<PyStr(<<"a", "b", "c">>), PyNone>>,
               <<PyStr(<<"8", "0", "\n">>), PyInt(8080)>>}}
PortMappings == MappingsOf(PortPairs, PortCore)

\* the pairs the input mappings of each schema are made of; the keys unknown
\* and future are declared by no schema
HassPairs ==
    {<<ATTR_UUID, PyStr(<<"0", "1", "2", "3", "4", "5", "6", "7", "8", "9", "a", "b", "c", "d", "e", "f", "0", "1", "2", "3", "4", "5", "6", "7", "8", "9", "a", "b", "c", "d", "e", "f">>)>>,
     <<ATTR_UUID, PyStr(<<"x", "y", "z">>)>>,
     <<ATTR_PORT, PyStr(<<"8", "0">>)>>,
     <<ATTR_PORT, PyInt(0)>>,
     <<ATTR_BOOT, PyStr(<<"y", "e", "s">>)>>,
     <<ATTR_BOOT, PyStr(<<"m", "a", "y", "b", "e">>)>>,
     <<ATTR_VERSION, PyInt(5)>>,
     <<ATTR_IMAGE, PyStr(<<"o", "r", "g", "/", "{", "a", "r", "c", "h", "}", "-", "i", "m", "g">>)>>,
     <<ATTR_ACCESS_TOKEN, PyStr(<<"z", "z">>)>>,
     <<ATTR_AUDIO_OUTPUT, PyStr(<<"h", "w">>)>>,
     <<ATTR_WAIT_BOOT, PyInt(59)>>,
     <<PyStr(<<"u", "n", "k", "n", "o", "w", "n">>), PyInt(1)>>,
     <<PyStr(<<"f", "u", "t", "u", "r", "e">>), PyStr(<<"a", "b", "c">>)>>}
UpdaterPairs ==
    {<<ATTR_CHANNEL, PyStr(<<"b", "e", "t", "a">>)>>,
     <<ATTR_CHANNEL, PyStr(<<"n", "i", "g", "h", "t", "l", "y">>)>>,
     <<ATTR_HOMEASSISTANT, PyInt(5)>>,
     <<ATTR_IMAGE, EmptyDict>>,
     <<ATTR_IMAGE, PyDict(<<<<ATTR_CLI, PyStr(<<"a", "/", "b">>)>>>>)>>,
     <<ATTR_IMAGE, PyDict(<<<<ATTR_CLI, PyStr(<<"a", "/", "b">>)>>, <<PyStr(<<"u", "n", "k", "n", "o", "w", "n">>), PyInt(1)>>>>)>>,
     <<ATTR_IMAGE, PyDict(<<<<PyStr(<<"u", "n", "k", "n", "o", "w", "n">>), PyInt(1)>>, <<PyStr(<<"f", "u", "t", "u", "r", "e">>), PyStr(<<"a", "b", "c">>)>>>>)>>,
     <<ATTR_IMAGE, PyDict(<<<<PyStr(<<"u", "n", "k", "n", "o", "w", "n">>), PyInt(1)>>, <<ATTR_CLI, PyStr(<<"b", "a", "d">>)>>, <<ATTR_DNS, PyStr(<<"x", "/", "y">>)>>>>)>>,
     <<ATTR_IMAGE, PyInt(3)>>,
     <<PyStr(<<"u", "n", "k", "n", "o", "w", "n">>), PyInt(1)>>,
     <<PyStr(<<"f", "u", "t", "u", "r", "e">>), PyDict(<<<<ATTR_CLI, PyStr(<<"b", "a", "d">>)>>>>)>>}
\* a pair of a SCHEMA_SUPERVISOR_CONFIG input, and the number of values in
\* it that are invalid
SupervisorTagged ==
    {<<ATTR_TIMEZONE, PyStr(<<"U", "T", "C">>), 0>>,
     <<ATTR_TIMEZONE, PyStr(<<"M", "a", "r", "s">>), 1>>,
     <<ATTR_WAIT_BOOT, PyInt(5), 0>>,
     <<ATTR_WAIT_BOOT, PyInt(0), 1>>,
     <<ATTR_WAIT_BOOT, PyStr(<<"a", "b", "c">>), 1>>,
     <<ATTR_LOGGING, PyStr(<<"d", "e", "b", "u", "g">>), 0>>,
     <<ATTR_LOGGING, PyStr(<<"l", "o", "u", "d">>), 1>>,
     <<ATTR_ADDONS_CUSTOM_LIST, PyList(<<Repo(<<>>), Repo(<<"#", "d", "e", "v">>)>>), 0>>,
     <<ATTR_ADDONS_CUSTOM_LIST, PyList(<<Repo(<<>>), Repo(<<>>)>>), 1>>,
     <<ATTR_ADDONS_CUSTOM_LIST, PyList(<<PyStr(<<"n", "o", "t", " ", "a", " ", "u", "r", "l", "#", "d", "e", "v">>), Repo(<<>>), PyStr(<<"#", "d", "e", "v">>)>>), 2>>,
     <<ATTR_DEBUG, PyStr(<<"y", "e", "s">>), 0>>,
     <<ATTR_DEBUG, PyStr(<<"m", "a", "y", "b", "e">>), 1>>,
     <<ATTR_LAST_BOOT, PyInt(5), 0>>,
     <<PyStr(<<"u", "n", "k", "n", "o", "w", "n">>), PyInt(1), 0>>}
SupervisorPairs == {<<e[1], e[2]>> : e \in SupervisorTagged}
IngressPairs ==
    {<<ATTR_SESSION, EmptyDict>>,
     <<ATTR_SESSION, PyDict(<<<<PyStr(<<"a", "a", "a", "a", "a", "a", "a", "a", "a", "a", "a", "a", "a", "a", "a", "a", "a", "a", "a", "a", "a", "a", "a", "a", "a", "a", "a", "a", "a", "a", "a", "a">>), PyInt(1)>>>>)>>,
     <<ATTR_SESSION, PyDict(<<<<PyStr(<<"s", "h", "o", "r", "t">>), PyInt(1)>>>>)>>,
     <<ATTR_SESSION, PyDict(<<<<PyStr(<<"a", "a", "a", "a", "a", "a", "a", "a", "a", "a", "a", "a", "a", "a", "a", "a", "a", "a", "a", "a", "a", "a", "a", "a", "a", "a", "a", "a", "a", "a", "a", "a">>), PyStr(<<"a", "b", "c">>)>>>>)>>,
     <<ATTR_SESSION, PyInt(1)>>,
     <<ATTR_PORTS, EmptyDict>>,
     <<ATTR_PORTS, PyDict(<<<<PyStr(<<"a">>), PyInt(80)>>, <<PyInt(5), PyStr(<<"8", "1">>)>>>>)>>,
     <<ATTR_PORTS, PyDict(<<<<PyStr(<<"a">>), PyInt(0)>>>>)>>,
     <<PyStr(<<"u", "n", "k", "n", "o", "w", "n">>), PyInt(1)>>,
     <<PyStr(<<"f", "u", "t", "u", "r", "e">>), EmptyDict>>}

\* a mapping with the one key wait_boot
WaitBootOnly(x) == PyDict(<<<<ATTR_WAIT_BOOT, x>>>>)
\* the pairs of the mappings of several keys
HassCore ==
    {e \in HassPairs :
        \/ e[1] \in {ATTR_PORT, ATTR_WAIT_BOOT, PyStr(<<"u", "n", "k", "n", "o", "w", "n">>)}
        \/ e[1] = ATTR_UUID /\ Len(e[2].v) = 32
        \/ e[1] = ATTR_BOOT /\ e[2] = PyStr(<<"m", "a", "y", "b", "e">>)}
UpdaterCore ==
    {e \in UpdaterPairs :
        \/ e[1] \in {ATTR_CHANNEL, PyStr(<<"u", "n", "k", "n", "o", "w", "n">>)}
        \/ e[1] = ATTR_IMAGE /\ e[2].t = "dict" /\ Len(e[2].v) > 1}
SupervisorCore ==
    {e \in SupervisorPairs :
        \/ e[1] = PyStr(<<"u", "n", "k", "n", "o", "w", "n">>)
        \/ \E g \in SupervisorTagged : g[1] = e[1] /\ g[2] = e[2] /\ g[3] > 0}
IngressCore ==
    {e \in IngressPairs :
        \/ e[1] \in {ATTR_PORTS, PyStr(<<"u", "n", "k", "n", "o", "w", "n">>)}
        \/ e[1] = ATTR_SESSION /\ e[2].t = "dict" /\ e[2] # EmptyDict}
HassInputs == MappingsOf(HassPairs, HassCore) \cup {WaitBootOnly(x) : x \in IntInputs}
UpdaterInputs == MappingsOf(UpdaterPairs, UpdaterCore)
SupervisorInputs ==
    MappingsOf(SupervisorPairs, SupervisorCore) \cup {WaitBootOnly(x) : x \in IntInputs}
IngressInputs == MappingsOf(IngressPairs, IngressCore)

(***************************************************************************)
(* The calls                                                               *)
(***************************************************************************)
NoResult == Ok(PyNone)

Init ==
    /\ pc = "ready"
    /\ op = "none"
    /\ input = PyNone
    /\ result = NoResult
    /\ generated = <<>>

\* the caller calls o with x and has r in hand
Call(o, x, r) ==
    /\ pc = "ready"
    /\ pc' = "done"
    /\ op' = o
    /\ input' = x
    /\ result' = r

Call_network_port ==
    \E x \in IntInputs :
        Call("network_port", x, network_port(x)) /\ UNCHANGED generated

Call_wait_boot ==
    \E x \in IntInputs :
        Call("wait_boot", x, wait_boot(x)) /\ UNCHANGED generated

Call_dns_server_list ==
    \E x \in DnsLists :
        Call("dns_server_list", x, dns_server_list(x)) /\ UNCHANGED generated

Call_repositories ==
    \E x \in RepoLists :
        Call("repositories", x, repositories(x)) /\ UNCHANGED generated

Call_DOCKER_PORTS ==
    \E x \in PortMappings :
        Call("DOCKER_PORTS", x, DOCKER_PORTS(x)) /\ UNCHANGED generated

\* what uuid4 draws next
NextUuid == Uuid4Hex(Len(generated) + 1)

Call_SCHEMA_HASS_CONFIG ==
    \E x \in HassInputs :
        LET draws == Draws(SCHEMA_HASS_CONFIG, x, NextUuid)
            r == ValidateMapping(SCHEMA_HASS_CONFIG, x, NextUuid)
        IN /\ Len(generated) + Len(draws) <= MaxDraws
           /\ Call("SCHEMA_HASS_CONFIG", x, r)
           /\ generated' = generated \o draws

Call_SCHEMA_UPDATER_CONFIG ==
    \E x \in UpdaterInputs :
        /\ Call("SCHEMA_UPDATER_CONFIG", x, ValidateMapping(SCHEMA_UPDATER_CONFIG, x, PyNone))
        /\ UNCHANGED generated

Call_SCHEMA_SUPERVISOR_CONFIG ==
    \E x \in SupervisorInputs :
        /\ Call("SCHEMA_SUPERVISOR_CONFIG", x,
                ValidateMapping(SCHEMA_SUPERVISOR_CONFIG, x, PyNone))
        /\ UNCHANGED generated

Call_SCHEMA_INGRESS_CONFIG ==
    \E x \in IngressInputs :
        /\ Call("SCHEMA_INGRESS_CONFIG", x, ValidateMapping(SCHEMA_INGRESS_CONFIG, x, PyNone))
        /\ UNCHANGED generated

\* the caller is done with the result and may call again
Return ==
    /\ pc = "done"
    /\ pc' = "ready"
    /\ op' = "none"
    /\ input' = PyNone
    /\ result' = NoResult
    /\ UNCHANGED generated

Next ==
    \/ Call_network_port
    \/ Call_wait_boot
    \/ Call_dns_server_list
    \/ Call_repositories
    \/ Call_DOCKER_PORTS
    \/ Call_SCHEMA_HASS_CONFIG
    \/ Call_SCHEMA_UPDATER_CONFIG
    \/ Call_SCHEMA_SUPERVISOR_CONFIG
    \/ Call_SCHEMA_INGRESS_CONFIG
    \/ Return

Spec == Init /\ [][Next]_vars

(***************************************************************************)
(* Properties                                                              *)
(***************************************************************************)
Done(o) == pc = "done" /\ op = o
OneError(kind) == <<[kind |-> kind, path |-> <<>>]>>
Elements(l) == {l.v[i] : i \in 1..Len(l.v)}
\* a dict as the set of its pairs
PairsOf(d) == {d.v[i] : i \in 1..Len(d.v)}

\* C5: network_port returns the integer n for every n in 1..65535 given as
\* an int or as its decimal string, fails the range check for an integer
\* below 1 or above 65535, and fails the coercion for what is no integer.
C5_NetworkPort ==
    Done("network_port") =>
        /\ \A n \in IntProbe :
              input \in IntForms(n) =>
                 IF 1 <= n /\ n <= 65535
                 THEN result = Ok(PyInt(n))
                 ELSE ~result.ok /\ ~result.crash /\ result.errors = OneError("RangeInvalid")
        /\ input \in NotInts =>
              ~result.ok /\ ~result.crash /\ result.errors = OneError("CoerceInvalid")

C5_Witness ==
    /\ Done("network_port") /\ input = PyStr(IntToStr(65535)) /\ result = Ok(PyInt(65535))

\* C6: dns_server_list accepts a list exactly when it has at most 8
\* elements and each is dns:// (in any case) followed by an IPv4 or IPv6
\* address; it returns the list as it is; a list of 9 or more elements is
\* rejected for its length, whatever its elements.
C6_DnsServerList ==
    Done("dns_server_list") =>
        /\ result.ok <=> (Len(input.v) <= 8 /\ Elements(input) \subseteq GoodDns)
        /\ result.ok => result.out = input
        /\ Len(input.v) > 8 =>
              ~result.ok /\ ~result.crash /\ result.errors = OneError("LengthInvalid")

C6_Witness ==
    /\ Done("dns_server_list") /\ Len(input.v) = 9 /\ Elements(input) \subseteq GoodDns
    /\ result.errors = OneError("LengthInvalid")

NoTwoEqual(l) == \A i, j \in 1..Len(l.v) : i < j => l.v[i] # l.v[j]

\* C7: repositories accepts a list exactly when every element is <url> or
\* <url>#<branch> and no two elements are equal, and returns the list as
\* it is.
C7_Repositories ==
    Done("repositories") =>
        /\ result.ok <=> (Elements(input) \subseteq GoodRepos /\ NoTwoEqual(input))
        /\ result.ok => result.out = input

\* the validated form of a port value
ValidatedPort(x) == IF x.t = "none" THEN x ELSE CoerceInt(x).out

\* C9: DOCKER_PORTS accepts a mapping exactly when every key, as a string,
\* is digits optionally followed by /tcp or /udp and every value is null or
\* an integer in 1..65535; the empty mapping is accepted; the output maps
\* the string of every input key to the validated value.
C9_DockerPorts ==
    Done("DOCKER_PORTS") =>
        /\ result.ok <=> \A e \in PairsOf(input) :
                            e[1] \in GoodPortKeys /\ e[2] \in GoodPortValues
        /\ input = EmptyDict => result.ok
        /\ result.ok => \A e \in PairsOf(input) :
                            /\ DictHas(result.out, PyStr(ToStr(e[1])))
                            /\ DictGet(result.out, PyStr(ToStr(e[1]))) = ValidatedPort(e[2])

SchemaOps == {"SCHEMA_HASS_CONFIG", "SCHEMA_UPDATER_CONFIG",
              "SCHEMA_SUPERVISOR_CONFIG", "SCHEMA_INGRESS_CONFIG"}
SchemaOf(o) ==
    CASE o = "SCHEMA_HASS_CONFIG" -> SCHEMA_HASS_CONFIG
      [] o = "SCHEMA_UPDATER_CONFIG" -> SCHEMA_UPDATER_CONFIG
      [] o = "SCHEMA_SUPERVISOR_CONFIG" -> SCHEMA_SUPERVISOR_CONFIG
      [] o = "SCHEMA_INGRESS_CONFIG" -> SCHEMA_INGRESS_CONFIG
DeclaredKeys(fields) == {fields[i].key : i \in 1..Len(fields)}
\* d without the keys that fields does not declare
DeclaredOnly(d, fields) ==
    PyDict(SelectSeq(d.v, LAMBDA e : e[1] \in DeclaredKeys(fields)))
\* the input of o without its undeclared keys, at the top and in the nested
\* image mapping of the updater configuration
Stripped(o, d) ==
    LET top == DeclaredOnly(d, SchemaOf(o).fields)
    IN IF o # "SCHEMA_UPDATER_CONFIG" THEN top
       ELSE PyDict([i \in 1..Len(top.v) |->
                IF top.v[i][1] = ATTR_IMAGE /\ top.v[i][2].t = "dict"
                THEN <<ATTR_IMAGE, DeclaredOnly(top.v[i][2], UpdaterImageFields)>>
                ELSE top.v[i]])
\* what uuid4 drew last
LastDrawn == IF generated = <<>> THEN PyNone ELSE generated[Len(generated)]

\* C1: a key that a configuration schema does not declare is dropped, at
\* the top and in the nested image mapping: the result is the result for
\* the input without its undeclared keys, no error is about an undeclared
\* key, and no undeclared key is in the output.
C1_RemoveExtra ==
    (pc = "done" /\ op \in SchemaOps) =>
        /\ result = ValidateMapping(SchemaOf(op), Stripped(op, input), LastDrawn)
        /\ \A i \in 1..Len(result.errors) :
              LET path == result.errors[i].path
              IN /\ path[1] \in DeclaredKeys(SchemaOf(op).fields)
                 /\ (op = "SCHEMA_UPDATER_CONFIG" /\ path[1] = ATTR_IMAGE /\ Len(path) > 1)
                        => path[2] \in DeclaredKeys(UpdaterImageFields)
        /\ result.ok =>
              /\ DictKeys(result.out) \subseteq DeclaredKeys(SchemaOf(op).fields)
              /\ op = "SCHEMA_UPDATER_CONFIG" =>
                    DictKeys(DictGet(result.out, ATTR_IMAGE))
                        \subseteq DeclaredKeys(UpdaterImageFields)

C1_Witness ==
    /\ Done("SCHEMA_UPDATER_CONFIG")
    /\ DictHas(input, PyStr(<<"u", "n", "k", "n", "o", "w", "n">>))
    /\ DictHas(input, ATTR_IMAGE)
    /\ DictGet(input, ATTR_IMAGE).t = "dict"
    /\ DictKeys(DictGet(input, ATTR_IMAGE)) = {ATTR_CLI, PyStr(<<"u", "n", "k", "n", "o", "w", "n">>)}
    /\ result.ok
    /\ DictKeys(result.out) = {ATTR_CHANNEL, ATTR_IMAGE}
    /\ DictKeys(DictGet(result.out, ATTR_IMAGE)) = {ATTR_CLI}

\* C2: a call of SCHEMA_HASS_CONFIG on an input that lacks uuid draws
\* exactly one uuid4 value, one that no earlier call drew, and an accepted
\* output carries it; a call on an input that has uuid draws none; so the
\* values drawn, which are the uuids returned to the calls that lack the
\* field, are all different.
C2_FreshUuid ==
    /\ [][(pc = "ready" /\ op' = "SCHEMA_HASS_CONFIG") =>
             IF DictHas(input', ATTR_UUID)
             THEN generated' = generated
             ELSE /\ Len(generated') = Len(generated) + 1
                  /\ SubSeq(generated', 1, Len(generated)) = generated
                  /\ generated'[Len(generated')] \notin Range(generated)
                  /\ result'.ok =>
                        DictGet(result'.out, ATTR_UUID) = generated'[Len(generated')]]_vars
    /\ [](\A i, j \in 1..Len(generated) : i < j => generated[i] # generated[j])

C2_Witness ==
    /\ Done("SCHEMA_HASS_CONFIG") /\ ~DictHas(input, ATTR_UUID) /\ result.ok
    /\ Len(generated) = 2 /\ generated[1] # generated[2]
    /\ DictGet(result.out, ATTR_UUID) = generated[2]

HasError(kind, path) ==
    \E i \in 1..Len(result.errors) :
        result.errors[i].kind = kind /\ result.errors[i].path = path

\* C3 as the specification states it: an ingress configuration that lacks
\* session is rejected with a missing-required-key error.
C3_MissingRequired ==
    (Done("SCHEMA_INGRESS_CONFIG") /\ ~DictHas(input, ATTR_SESSION)) =>
        ~result.ok /\ HasError("RequiredFieldInvalid", <<ATTR_SESSION>>)

\* C3: session and ports are required keys with the default dict: an
\* ingress configuration that lacks one of them never gets a
\* missing-required-key error, and an accepted output has the empty
\* mapping there; a field that is present and invalid is rejected.
C3_RequiredWithDefault ==
    Done("SCHEMA_INGRESS_CONFIG") =>
        /\ \A k \in {ATTR_SESSION, ATTR_PORTS} :
              /\ \A i \in 1..Len(result.errors) :
                    result.errors[i].kind # "RequiredFieldInvalid"
              /\ ~DictHas(input, k) =>
                    /\ \A i \in 1..Len(result.errors) : result.errors[i].path[1] # k
                    /\ result.ok => DictGet(result.out, k) = EmptyDict
        /\ DictKeys(input) \cap {ATTR_SESSION, ATTR_PORTS} = {} =>
              result = Ok(PyDict(<<<<ATTR_SESSION, EmptyDict>>, <<ATTR_PORTS, EmptyDict>>>>))

C3_Witness ==
    /\ Done("SCHEMA_INGRESS_CONFIG")
    /\ DictHas(input, ATTR_PORTS) /\ ~DictHas(input, ATTR_SESSION)
    /\ result.ok /\ DictGet(result.out, ATTR_SESSION) = EmptyDict

\* the number of invalid values in a pair of SupervisorPairs
Bad(e) == (CHOOSE g \in SupervisorTagged : g[1] = e[1] /\ g[2] = e[2])[3]
\* the key of every invalid value of the pairs, in the order of the pairs
RECURSIVE BadKeys(_)
BadKeys(pairs) ==
    IF pairs = <<>> THEN <<>>
    ELSE [i \in 1..Bad(Head(pairs)) |-> Head(pairs)[1]] \o BadKeys(Tail(pairs))
\* the keys that SCHEMA_SUPERVISOR_CONFIG declares and d has invalid, in
\* the order of the declaration
BadDeclared(d) ==
    SelectSeq([i \in 1..Len(SupervisorFields) |-> SupervisorFields[i].key],
              LAMBDA k : \E i \in 1..Len(d.v) : d.v[i][1] = k /\ Bad(d.v[i]) > 0)
ErrorKeys == [i \in 1..Len(result.errors) |-> result.errors[i].path[1]]

IntOf(x) == CHOOSE n \in IntProbe : x \in IntForms(n)
IsWaitBootOnly == input \in {WaitBootOnly(x) : x \in UNION {IntForms(n) : n \in IntProbe}}

\* C8 as the specification states it: the wait_boot of
\* SCHEMA_SUPERVISOR_CONFIG has a minimum of 60 and no maximum.
C8_SupervisorMin60 ==
    (Done("SCHEMA_SUPERVISOR_CONFIG") /\ IsWaitBootOnly) =>
        (result.ok <=> IntOf(DictGet(input, ATTR_WAIT_BOOT)) >= 60)

\* C8: the validator wait_boot accepts the integers 1..60 and is the
\* wait_boot of SCHEMA_SUPERVISOR_CONFIG; the wait_boot of
\* SCHEMA_HASS_CONFIG accepts the integers from 60 on, without a maximum.
C8_WaitBoot ==
    /\ Done("wait_boot") =>
          /\ \A n \in IntProbe :
                input \in IntForms(n) =>
                   IF 1 <= n /\ n <= 60 THEN result = Ok(PyInt(n))
                   ELSE ~result.ok /\ result.errors = OneError("RangeInvalid")
          /\ input \in NotInts => ~result.ok /\ result.errors = OneError("CoerceInvalid")
    /\ (Done("SCHEMA_SUPERVISOR_CONFIG") /\ IsWaitBootOnly) =>
          LET n == IntOf(DictGet(input, ATTR_WAIT_BOOT))
          IN /\ result.ok <=> (1 <= n /\ n <= 60)
             /\ result.ok => DictGet(result.out, ATTR_WAIT_BOOT) = PyInt(n)
    /\ (Done("SCHEMA_HASS_CONFIG") /\ IsWaitBootOnly) =>
          LET n == IntOf(DictGet(input, ATTR_WAIT_BOOT))
          IN /\ result.ok <=> n >= 60
             /\ result.ok => DictGet(result.out, ATTR_WAIT_BOOT) = PyInt(n)

C8_Witness ==
    /\ Done("SCHEMA_SUPERVISOR_CONFIG")
    /\ input = WaitBootOnly(PyInt(61))
    /\ result.errors = <<[kind |-> "RangeInvalid", path |-> <<ATTR_WAIT_BOOT>>]>>

\* the output of each schema for the empty mapping
ExpectedDefaults(o) ==
    CASE o = "SCHEMA_HASS_CONFIG" ->
            {<<ATTR_UUID, LastDrawn>>,
             <<ATTR_BOOT, PyBool(TRUE)>>,
             <<ATTR_PORT, PyInt(8123)>>,
             <<ATTR_SSL, PyBool(FALSE)>>,
             <<ATTR_WATCHDOG, PyBool(TRUE)>>,
             <<ATTR_WAIT_BOOT, PyInt(600)>>,
             <<ATTR_AUDIO_OUTPUT, PyNone>>,
             <<ATTR_AUDIO_INPUT, PyNone>>}
      [] o = "SCHEMA_UPDATER_CONFIG" ->
            {<<ATTR_CHANNEL, PyEnum(<<"s", "t", "a", "b", "l", "e">>)>>,
             <<ATTR_IMAGE, EmptyDict>>}
      [] o = "SCHEMA_SUPERVISOR_CONFIG" ->
            {<<ATTR_TIMEZONE, PyStr(<<"U", "T", "C">>)>>,
             <<ATTR_ADDONS_CUSTOM_LIST, PyList(<<DefaultRepository>>)>>,
             <<ATTR_WAIT_BOOT, PyInt(5)>>,
             <<ATTR_LOGGING, PyStr(<<"i", "n", "f", "o">>)>>,
             <<ATTR_DEBUG, PyBool(FALSE)>>,
             <<ATTR_DEBUG_BLOCK, PyBool(FALSE)>>}
      [] o = "SCHEMA_INGRESS_CONFIG" ->
            {<<ATTR_SESSION, EmptyDict>>, <<ATTR_PORTS, EmptyDict>>}

\* C10: each of the four configuration schemas accepts the empty mapping
\* and returns exactly its defaulted fields with their defaults, the uuid
\* being 32 lowercase hexadecimal characters.
C10_Defaults ==
    (pc = "done" /\ op \in SchemaOps /\ input = EmptyDict) =>
        /\ result.ok
        /\ PairsOf(result.out) = ExpectedDefaults(op)
        /\ Len(result.out.v) = Cardinality(ExpectedDefaults(op))
        /\ op = "SCHEMA_HASS_CONFIG" =>
              LET uuid == DictGet(result.out, ATTR_UUID)
              IN uuid.t = "str" /\ Len(uuid.v) = 32 /\ AllIn(uuid.v, HexLower)

C10_Witness ==
    /\ Done("SCHEMA_HASS_CONFIG") /\ input = EmptyDict /\ result.ok
    /\ DictGet(result.out, ATTR_WAIT_BOOT) = PyInt(600)

====
